---- MODULE Spec2Model ----
(***************************************************************************)
(* A model of the spatial crate: the AABB3 interval algebra (aabb.rs), the *)
(* Plane3 half-space query and its 8-corner reference (plane.rs), and the  *)
(* stack-based traversal BVH::query (bvh.rs).                              *)
(*                                                                         *)
(* Indices are 0-based as in the source: `branches` and `leaves` are       *)
(* functions over 0..len-1.  The traversal stack is a sequence whose last  *)
(* element is the top.  Option<T> is a sequence of length 0 or 1.          *)
(* Coordinates are small integers, far from the i64 range, so no product   *)
(* or sum of the model overflows.                                          *)
(***************************************************************************)
EXTENDS Integers, Sequences, FiniteSets, TLC

VARIABLES
    root,       \* BVH.root
    branches,   \* BVH.branches : index -> [bound, left, right]
    leaves,     \* BVH.leaves   : index -> [bound, value]
    q,          \* the query body: q[bound] is q.check(&bound)
    stack,      \* the generator's `stack`
    pc,         \* position of the generator of BVH::query
    index,      \* the `index` of the for loop of the Include arm
    last,       \* the `rightmost` end of that loop
    out,        \* leaf indices whose value has been yielded, in order
    boxA,       \* AABB3 operand `self`
    boxB,       \* AABB3 operand `a`
    interAB,    \* <<>> or <<boxA.intersects(&boxB)>>
    interBA,    \* <<>> or <<boxB.intersects(&boxA)>>
    doesAB,     \* <<>> or <<boxA.does_intersects_with(&boxB)>>
    boxOp,      \* the operation that produced boxA
    point,      \* plane query: a point of the plane
    normal,     \* plane query: the normal of the plane
    bound,      \* plane query: the box that is classified
    fastRes,    \* <<>> or <<Plane3::new(point, normal).check(&bound)>>
    naiveRes    \* <<>> or <<PlaneNaive3::new(point, normal).check(&bound)>>

bvhVars == <<root, branches, leaves, q, stack, pc, index, last, out>>
aabbVars == <<boxA, boxB, interAB, interBA, doesAB, boxOp>>
planeVars == <<point, normal, bound, fastRes, naiveRes>>
vars == <<bvhVars, aabbVars, planeVars>>

\* Bounds of the model.
MaxLeaves == 3        \* leaves of a BVH
MaxCoord == 2         \* AABB3 operands have coordinates in 0..MaxCoord
MaxPlaneCoord == 1    \* plane query: coordinates of the point and the box
MaxNormal == 1        \* plane query: components of the normal in -MaxNormal..MaxNormal
MaxBoxCoord == 1      \* boxes built from points: coordinates in 0..MaxBoxCoord

(***************************************************************************)
(* AABBRelation                                                            *)
(***************************************************************************)
Interleave == "Interleave"
Intersect == "Intersect"
Include == "Include"
AABBRelation == {Interleave, Intersect, Include}

None == <<>>
Some(x) == <<x>>

(***************************************************************************)
(* BVH: node references                                                    *)
(***************************************************************************)
\* fn decompose(id) -> (id >> 1, (id & 1) != 0)
decompose(id) == [id |-> id \div 2, is_branch |-> (id % 2) # 0]

\* The references decompose decodes: tag bit low, index shifted.
LeafRef(i) == 2 * i
BranchRef(i) == 2 * i + 1

Len0(f) == Cardinality(DOMAIN f)
Pop(s) == SubSeq(s, 1, Len(s) - 1)
Top(s) == s[Len(s)]

(***************************************************************************)
(* BVH: the trees the builder hands over.  n leaves, n-1 branches, every   *)
(* node but the root the child of exactly one branch, leaves stored in     *)
(* left-to-right tree order.  The bound of a node is named by the node's   *)
(* reference, so a query body may answer differently on every node.        *)
(***************************************************************************)
LeafRefs(n) == {LeafRef(i) : i \in 0..(n - 1)}
BranchRefs(n) == {BranchRef(b) : b \in 0..(n - 2)}
NodeRefs(n) == LeafRefs(n) \cup BranchRefs(n)

MkLeaves(n) == [i \in 0..(n - 1) |-> [bound |-> LeafRef(i), value |-> i]]
MkBranches(n, c) ==
    [b \in 0..(n - 2) |->
        [bound |-> BranchRef(b), left |-> c[b].left, right |-> c[b].right]]

RECURSIVE InOrder(_, _)
InOrder(br, ref) ==
    LET d == decompose(ref)
    IN IF d.is_branch
       THEN InOrder(br, br[d.id].left) \o InOrder(br, br[d.id].right)
       ELSE <<d.id>>

WellFormed(r, br, n) ==
    IF n = 0 THEN r = 0 /\ DOMAIN br = {}
    ELSE IF n = 1 THEN r = LeafRef(0) /\ DOMAIN br = {}
    ELSE /\ DOMAIN br = 0..(n - 2)
         /\ r \in BranchRefs(n)
         /\ \A b \in DOMAIN br : br[b].left \in NodeRefs(n) /\ br[b].right \in NodeRefs(n)
         /\ LET kids == {br[b].left : b \in DOMAIN br} \cup {br[b].right : b \in DOMAIN br}
            IN Cardinality(kids) = 2 * (n - 1) /\ r \notin kids
         /\ InOrder(br, r) = [i \in 1..n |-> i - 1]

Trees(n) ==
    IF n <= 1 THEN {[root |-> 0, branches |-> <<>>]}
    ELSE {t \in {[root |-> r, branches |-> MkBranches(n, c)] :
                    r \in BranchRefs(n),
                    c \in [0..(n - 2) -> [left : NodeRefs(n), right : NodeRefs(n)]]} :
             WellFormed(t.root, t.branches, n)}

(***************************************************************************)
(* BVH::leftmost, BVH::rightmost                                           *)
(***************************************************************************)
RECURSIVE leftmostFrom(_)
leftmostFrom(node) ==
    LET d == decompose(node.left)
    IN IF ~d.is_branch THEN d.id ELSE leftmostFrom(branches[d.id])

leftmost(branch) == leftmostFrom(branches[branch])

RECURSIVE rightmostFrom(_)
rightmostFrom(node) ==
    LET d == decompose(node.right)
    IN IF ~d.is_branch THEN d.id ELSE rightmostFrom(branches[d.id])

rightmost(branch) == rightmostFrom(branches[branch])

(***************************************************************************)
(* BVH::query, the generator.  pc is the generator's position:             *)
(*   "start"   created, not resumed yet                                    *)
(*   "loop"    at the head of `while stack.len() > 0`                      *)
(*   "range"   inside `for index in leftmost..=rightmost`                  *)
(*   "done"    completed (the iterator returns None)                       *)
(*   "aborted" panicked: an index out of range, or the assertion           *)
(***************************************************************************)

\* The backtrack loop, lines 135-148, entered with `stack` already popped.
\* ok is FALSE when assert!(is_branch) or the index of `parent` fails.
RECURSIVE Backtrack(_, _)
Backtrack(stk, oldtop) ==
    IF Len(stk) = 0 THEN [ok |-> TRUE, stack |-> stk]
    ELSE LET newtop == Top(stk)
             d == decompose(newtop)
         IN IF ~d.is_branch \/ d.id \notin DOMAIN branches
            THEN [ok |-> FALSE, stack |-> stk]
            ELSE LET parent == branches[d.id]
                 IN IF oldtop = parent.left
                    THEN [ok |-> TRUE, stack |-> Append(stk, parent.right)]
                    ELSE Backtrack(Pop(stk), newtop)

\* if popstack { stack.pop(); ... }
PopStack ==
    LET r == Backtrack(Pop(stack), Top(stack))
    IN IF r.ok
       THEN stack' = r.stack /\ pc' = "loop"
       ELSE stack' = r.stack /\ pc' = "aborted"

\* let branch = &self.branches[top];   (line 103: indexed by `top`)
BranchIndex(top, id) == top

\* The first resume: the empty tree returns, any other pushes the root.
QueryEmpty ==
    /\ pc = "start"
    /\ root = 0 /\ Len0(leaves) = 0
    /\ pc' = "done"
    /\ UNCHANGED <<aabbVars, planeVars>>
    /\ UNCHANGED <<root, branches, leaves, q, stack, index, last, out>>

QueryStart ==
    /\ pc = "start"
    /\ ~(root = 0 /\ Len0(leaves) = 0)
    /\ stack' = <<root>>
    /\ pc' = "loop"
    /\ UNCHANGED <<aabbVars, planeVars>>
    /\ UNCHANGED <<root, branches, leaves, q, index, last, out>>

\* while stack.len() > 0 fails: the generator completes.
LoopExit ==
    /\ pc = "loop"
    /\ Len(stack) = 0
    /\ pc' = "done"
    /\ UNCHANGED <<aabbVars, planeVars>>
    /\ UNCHANGED <<root, branches, leaves, q, stack, index, last, out>>

\* self.branches[..] or self.leaves[id] out of range: the index panics.
IndexPanic ==
    /\ pc = "loop"
    /\ Len(stack) > 0
    /\ LET top == Top(stack)
           d == decompose(top)
       IN IF d.is_branch
          THEN BranchIndex(top, d.id) \notin DOMAIN branches
          ELSE d.id \notin DOMAIN leaves
    /\ pc' = "aborted"
    /\ UNCHANGED <<aabbVars, planeVars>>
    /\ UNCHANGED <<root, branches, leaves, q, stack, index, last, out>>

BranchInterleave ==
    /\ pc = "loop"
    /\ Len(stack) > 0
    /\ LET top == Top(stack)
           d == decompose(top)
       IN /\ d.is_branch
          /\ BranchIndex(top, d.id) \in DOMAIN branches
          /\ q[branches[BranchIndex(top, d.id)].bound] = Interleave
    /\ PopStack
    /\ UNCHANGED <<aabbVars, planeVars>>
    /\ UNCHANGED <<root, branches, leaves, q, index, last, out>>

BranchIntersect ==
    /\ pc = "loop"
    /\ Len(stack) > 0
    /\ LET top == Top(stack)
           d == decompose(top)
       IN /\ d.is_branch
          /\ BranchIndex(top, d.id) \in DOMAIN branches
          /\ q[branches[BranchIndex(top, d.id)].bound] = Intersect
          /\ stack' = Append(stack, branches[BranchIndex(top, d.id)].left)
    /\ UNCHANGED <<aabbVars, planeVars>>
    /\ UNCHANGED <<root, branches, leaves, q, pc, index, last, out>>

BranchInclude ==
    /\ pc = "loop"
    /\ Len(stack) > 0
    /\ LET top == Top(stack)
           d == decompose(top)
       IN /\ d.is_branch
          /\ BranchIndex(top, d.id) \in DOMAIN branches
          /\ q[branches[BranchIndex(top, d.id)].bound] = Include
          /\ index' = leftmost(d.id)
          /\ last' = rightmost(d.id)
    /\ pc' = "range"
    /\ UNCHANGED <<aabbVars, planeVars>>
    /\ UNCHANGED <<root, branches, leaves, q, stack, out>>

\* yield &self.leaves[index].value;
RangeYield ==
    /\ pc = "range"
    /\ index <= last
    /\ IF index \in DOMAIN leaves
       THEN out' = Append(out, index) /\ index' = index + 1 /\ pc' = pc
       ELSE pc' = "aborted" /\ UNCHANGED <<out, index>>
    /\ UNCHANGED <<aabbVars, planeVars>>
    /\ UNCHANGED <<root, branches, leaves, q, stack, last>>

\* RangeEnd with `popstack = false` in the Include arm: the branch stays on
\* top of the stack and is visited again.
RangeEndNoPop ==
    /\ pc = "range"
    /\ index > last
    /\ pc' = "loop"
    /\ UNCHANGED <<aabbVars, planeVars>>
    /\ UNCHANGED <<root, branches, leaves, q, stack, index, last, out>>

\* The for loop is over: popstack = true.
RangeEnd ==
    /\ pc = "range"
    /\ index > last
    /\ PopStack
    /\ UNCHANGED <<aabbVars, planeVars>>
    /\ UNCHANGED <<root, branches, leaves, q, index, last, out>>

LeafVisit ==
    /\ pc = "loop"
    /\ Len(stack) > 0
    /\ LET top == Top(stack)
           d == decompose(top)
       IN /\ ~d.is_branch
          /\ d.id \in DOMAIN leaves
          /\ IF q[leaves[d.id].bound] = Interleave
             THEN out' = out
             ELSE out' = Append(out, d.id)
    /\ PopStack
    /\ UNCHANGED <<aabbVars, planeVars>>
    /\ UNCHANGED <<root, branches, leaves, q, index, last>>

QueryStep ==
    \/ QueryEmpty
    \/ QueryStart
    \/ LoopExit
    \/ IndexPanic
    \/ BranchInterleave
    \/ BranchIntersect
    \/ BranchInclude
    \/ RangeYield
    \/ RangeEnd
    \/ LeafVisit

(***************************************************************************)
(* Vec3 (vector.rs): a triple; `/` zips, `&` maps failing fast, `^` is the *)
(* dot product, `-` the componentwise difference.  `v | f` is written out  *)
(* where it is used: Vec3_new(f(v.0), f(v.1), f(v.2)).                     *)
(***************************************************************************)
Vec3_new(v1, v2, v3) == <<v1, v2, v3>>

\* self / a
Vec3_div(v, a) == Vec3_new(<<v[1], a[1]>>, <<v[2], a[2]>>, <<v[3], a[3]>>)

\* self & f, given the three results of f: the first None ends the mapping
Vec3_bitand(r1, r2, r3) ==
    IF r1 = None THEN None
    ELSE IF r2 = None THEN None
    ELSE IF r3 = None THEN None
    ELSE Some(Vec3_new(r1[1], r2[1], r3[1]))

Vec3_unzip(v) ==
    <<Vec3_new(v[1][1], v[2][1], v[3][1]), Vec3_new(v[1][2], v[2][2], v[3][2])>>

Vec3_sub(v, a) == Vec3_new(v[1] - a[1], v[2] - a[2], v[3] - a[3])

\* self ^ a
Vec3_bitxor(v, a) == v[1] * a[1] + v[2] * a[2] + v[3] * a[3]

\* std::cmp::Ordering and Ord::cmp
Less == "Less"
Equal == "Equal"
Greater == "Greater"
cmp(x, y) == IF x < y THEN Less ELSE IF x = y THEN Equal ELSE Greater

Vec3_to_ordering(v) == Vec3_new(cmp(v[1], 0), cmp(v[2], 0), cmp(v[3], 0))

min(x, y) == IF y < x THEN y ELSE x
max(x, y) == IF y < x THEN x ELSE y

(***************************************************************************)
(* AABB3 (aabb.rs): a Vec3 of pairs (lo, hi)                               *)
(***************************************************************************)
intersect_intervals(a, b) ==
    IF a[1] <= b[1] /\ b[1] <= a[2]
    THEN Some(<<b[1], min(a[2], b[2])>>)
    ELSE IF a[1] <= b[2] /\ b[2] <= a[2]
    THEN Some(<<max(a[1], b[1]), b[2]>>)
    ELSE None

\* order_pair that keeps its arguments as they come.
order_pair_unordered(a, b) == <<a, b>>

order_pair(a, b) == IF a > b THEN <<b, a>> ELSE <<a, b>>

reorder_pair(pair, ord) ==
    IF ord = Greater THEN <<pair[2], pair[1]>> ELSE <<pair[1], pair[2]>>

\* a.cmp(b).is_ne().then_some(())
is_ne_pair(a, b) == IF cmp(a, b) # Equal THEN Some(<<>>) ELSE None

\* Self(p0 / p1 | order_pair)
AABB3_new(p0, p1) ==
    LET z == Vec3_div(p0, p1)
    IN Vec3_new(order_pair(z[1][1], z[1][2]),
                order_pair(z[2][1], z[2][2]),
                order_pair(z[3][1], z[3][2]))

\* the closure |x, y| (min(x.0, y.0), max(x.1, y.1))
extends_pair(x, y) == <<min(x[1], y[1]), max(x[2], y[2])>>
AABB3_extends(self, a) ==
    LET z == Vec3_div(self, a)
    IN Vec3_new(extends_pair(z[1][1], z[1][2]),
                extends_pair(z[2][1], z[2][2]),
                extends_pair(z[3][1], z[3][2]))

\* Some(Self((self.0 / a.0 & intersect_intervals)?))
AABB3_intersects(self, a) ==
    LET z == Vec3_div(self, a)
    IN Vec3_bitand(intersect_intervals(z[1][1], z[1][2]),
                   intersect_intervals(z[2][1], z[2][2]),
                   intersect_intervals(z[3][1], z[3][2]))

\* (self.0 & is_ne_pair).is_some()
AABB3_is_degraded(self) ==
    Vec3_bitand(is_ne_pair(self[1][1], self[1][2]),
                is_ne_pair(self[2][1], self[2][2]),
                is_ne_pair(self[3][1], self[3][2])) # None

\* impl From<Vec3<(T, T)>> for AABB3<T>
AABB3_from(v) ==
    LET xy == Vec3_unzip(v)
    IN AABB3_new(xy[1], xy[2])

AABB3_does_intersects_with(self, a) ==
    LET body == AABB3_intersects(self, a)
    IN IF body # None THEN ~AABB3_is_degraded(body[1]) ELSE FALSE

\* self.0 / v | reorder_pair
AABB3_from_ordering(self, v) ==
    LET z == Vec3_div(self, v)
    IN Vec3_new(reorder_pair(z[1][1], z[1][2]),
                reorder_pair(z[2][1], z[2][2]),
                reorder_pair(z[3][1], z[3][2]))

(***************************************************************************)
(* Plane3 and the reference PlaneNaive3 (plane.rs)                         *)
(***************************************************************************)
Plane3_new(p, n) ==
    [normal |-> n, dir |-> Vec3_to_ordering(n), distance |-> Vec3_bitxor(p, n)]

Plane3_check(self, b) ==
    LET pair == Vec3_unzip(AABB3_from_ordering(b, self.dir))
        vn == pair[1]
        vp == pair[2]
        dp == Vec3_bitxor(vp, self.normal)
        dn == Vec3_bitxor(vn, self.normal)
    IN IF dp > self.distance
       THEN IF dn >= self.distance THEN Interleave ELSE Intersect
       ELSE IF dn < self.distance THEN Include ELSE Intersect

PlaneNaive3_new(p, n) == [point |-> p, normal |-> n]

\* let vs: [Vec3<T>; 8]
Corners(v) ==
    << Vec3_new(v[1][1], v[2][1], v[3][1]),
       Vec3_new(v[1][1], v[2][1], v[3][2]),
       Vec3_new(v[1][1], v[2][2], v[3][1]),
       Vec3_new(v[1][1], v[2][2], v[3][2]),
       Vec3_new(v[1][2], v[2][1], v[3][1]),
       Vec3_new(v[1][2], v[2][1], v[3][2]),
       Vec3_new(v[1][2], v[2][2], v[3][1]),
       Vec3_new(v[1][2], v[2][2], v[3][2]) >>

\* The loop over the corners from corner i on, with its early returns, and
\* the classification after it.
RECURSIVE NaiveLoop(_, _, _, _, _, _)
NaiveLoop(self, vs, i, less, equal, greater) ==
    IF i > Len(vs)
    THEN IF greater THEN Interleave
         ELSE IF less THEN Include
         ELSE Intersect
    ELSE LET d == Vec3_bitxor(Vec3_sub(vs[i], self.point), self.normal)
             c == cmp(d, 0)
         IN IF c = Less
            THEN IF greater THEN Intersect
                 ELSE NaiveLoop(self, vs, i + 1, TRUE, equal, greater)
            ELSE IF c = Equal
            THEN NaiveLoop(self, vs, i + 1, less, TRUE, greater)
            ELSE IF less THEN Intersect
                 ELSE NaiveLoop(self, vs, i + 1, less, equal, TRUE)

PlaneNaive3_check(self, b) == NaiveLoop(self, Corners(b), 1, FALSE, FALSE, FALSE)

(***************************************************************************)
(* Inputs                                                                  *)
(***************************************************************************)
Points(m) == {Vec3_new(x, y, z) : x \in 0..m, y \in 0..m, z \in 0..m}
Boxes(m) == {AABB3_new(p0, p1) : p0 \in Points(m), p1 \in Points(m)}
Normals(m) ==
    {Vec3_new(x, y, z) : x \in (-m)..m, y \in (-m)..m, z \in (-m)..m}
        \ {Vec3_new(0, 0, 0)}

\* Vec3<(T, T)> values, ordered or not
PairVecs(m) ==
    LET Pairs == {<<x, y>> : x \in 0..m, y \in 0..m}
    IN {Vec3_new(a, b, c) : a \in Pairs, b \in Pairs, c \in Pairs}

ZeroVec == Vec3_new(0, 0, 0)
ZeroBox == AABB3_new(ZeroVec, ZeroVec)

(***************************************************************************)
(* Operations on two boxes                                                 *)
(***************************************************************************)
Intersects ==
    /\ interAB = <<>>
    /\ interAB' = <<AABB3_intersects(boxA, boxB)>>
    /\ UNCHANGED <<boxA, boxB, interBA, doesAB, boxOp>>
    /\ UNCHANGED <<bvhVars, planeVars>>

IntersectsSwapped ==
    /\ interBA = <<>>
    /\ interBA' = <<AABB3_intersects(boxB, boxA)>>
    /\ UNCHANGED <<boxA, boxB, interAB, doesAB, boxOp>>
    /\ UNCHANGED <<bvhVars, planeVars>>

DoesIntersectsWith ==
    /\ doesAB = <<>>
    /\ doesAB' = <<AABB3_does_intersects_with(boxA, boxB)>>
    /\ UNCHANGED <<boxA, boxB, interAB, interBA, boxOp>>
    /\ UNCHANGED <<bvhVars, planeVars>>

(***************************************************************************)
(* Building boxes: boxB receives fresh boxes, boxA the results of the      *)
(* operations, and either may be copied into the other (AABB3 is Copy).    *)
(***************************************************************************)
\* The boxes AABB3::new and AABB3::from return on the bounded inputs.
NewResults ==
    {AABB3_new(p0, p1) : p0 \in Points(MaxBoxCoord), p1 \in Points(MaxBoxCoord)}
FromResults == {AABB3_from(v) : v \in PairVecs(MaxBoxCoord)}

New ==
    /\ \E b \in NewResults : boxB' = b
    /\ UNCHANGED <<boxA, interAB, interBA, doesAB, boxOp>>
    /\ UNCHANGED <<bvhVars, planeVars>>

From ==
    /\ \E b \in FromResults : boxB' = b
    /\ UNCHANGED <<boxA, interAB, interBA, doesAB, boxOp>>
    /\ UNCHANGED <<bvhVars, planeVars>>

Extends ==
    /\ boxA' = AABB3_extends(boxA, boxB)
    /\ boxOp' = "extends"
    /\ UNCHANGED <<boxB, interAB, interBA, doesAB>>
    /\ UNCHANGED <<bvhVars, planeVars>>

\* if let Some(body) = boxA.intersects(&boxB): body is kept
IntersectsSome ==
    /\ LET r == AABB3_intersects(boxA, boxB)
       IN r # None /\ boxA' = r[1]
    /\ boxOp' = "intersects"
    /\ UNCHANGED <<boxB, interAB, interBA, doesAB>>
    /\ UNCHANGED <<bvhVars, planeVars>>

\* The result becomes the operand of the next operation.
Exchange ==
    /\ boxA' = boxB
    /\ boxB' = boxA
    /\ boxOp' = "copy"
    /\ UNCHANGED <<interAB, interBA, doesAB>>
    /\ UNCHANGED <<bvhVars, planeVars>>

(***************************************************************************)
(* The plane query and its reference on one (point, normal, box)           *)
(***************************************************************************)
CheckFast ==
    /\ fastRes = <<>>
    /\ fastRes' = <<Plane3_check(Plane3_new(point, normal), bound)>>
    /\ UNCHANGED <<point, normal, bound, naiveRes>>
    /\ UNCHANGED <<bvhVars, aabbVars>>

CheckNaive ==
    /\ naiveRes = <<>>
    /\ naiveRes' = <<PlaneNaive3_check(PlaneNaive3_new(point, normal), bound)>>
    /\ UNCHANGED <<point, normal, bound, fastRes>>
    /\ UNCHANGED <<bvhVars, aabbVars>>

(***************************************************************************)
(* Initial states                                                          *)
(***************************************************************************)
BVHInit ==
    \E n \in 0..MaxLeaves :
        \E t \in Trees(n) :
            /\ root = t.root
            /\ branches = t.branches
            /\ leaves = MkLeaves(n)
            /\ q \in [NodeRefs(n) -> AABBRelation]
            /\ stack = <<>>
            /\ pc = "start"
            /\ index = 0
            /\ last = 0
            /\ out = <<>>

BVHIdle ==
    /\ root = 0
    /\ branches = <<>>
    /\ leaves = <<>>
    /\ q = <<>>
    /\ stack = <<>>
    /\ pc = "done"
    /\ index = 0
    /\ last = 0
    /\ out = <<>>

AABBInit ==
    /\ boxA \in Boxes(MaxCoord)
    /\ boxB \in Boxes(MaxCoord)
    /\ interAB = <<>>
    /\ interBA = <<>>
    /\ doesAB = <<>>
    /\ boxOp = "new"

AABBIdle ==
    /\ boxA = ZeroBox
    /\ boxB = ZeroBox
    /\ interAB = <<>>
    /\ interBA = <<>>
    /\ doesAB = <<>>
    /\ boxOp = "new"

PlaneInit ==
    /\ point \in Points(MaxPlaneCoord)
    /\ normal \in Normals(MaxNormal)
    /\ bound \in Boxes(MaxPlaneCoord)
    /\ fastRes = <<>>
    /\ naiveRes = <<>>

PlaneIdle ==
    /\ point = ZeroVec
    /\ normal = Vec3_new(1, 0, 0)
    /\ bound = ZeroBox
    /\ fastRes = <<>>
    /\ naiveRes = <<>>

(***************************************************************************)
(* Specifications                                                          *)
(***************************************************************************)
\* A traversal of a well-formed tree by an arbitrary query body.
Init == BVHInit /\ AABBIdle /\ PlaneIdle
Next == QueryStep
Spec == Init /\ [][Next]_vars

\* The same, with the consumer driving the iterator to exhaustion.
FairSpec == Spec /\ WF_vars(Next)

\* The AABB3 operations on every pair of canonical boxes.
InitAABB == BVHIdle /\ AABBInit /\ PlaneIdle
NextAABB == Intersects \/ IntersectsSwapped \/ DoesIntersectsWith
SpecAABB == InitAABB /\ [][NextAABB]_vars

\* Boxes built by new and from, combined by extends and intersects.
BoxesInit ==
    /\ boxA \in NewResults
    /\ boxB \in FromResults
    /\ interAB = <<>>
    /\ interBA = <<>>
    /\ doesAB = <<>>
    /\ boxOp = "new"
InitBoxes == BVHIdle /\ BoxesInit /\ PlaneIdle
NextBoxes == New \/ From \/ Extends \/ IntersectsSome \/ Exchange
SpecBoxes == InitBoxes /\ [][NextBoxes]_vars

\* Both plane classifications on every (point, normal, box).
InitPlane == BVHIdle /\ AABBIdle /\ PlaneInit
NextPlane == CheckFast \/ CheckNaive
SpecPlane == InitPlane /\ [][NextPlane]_vars

(***************************************************************************)
(* Properties of BVH::query                                                *)
(***************************************************************************)
Halted == pc \in {"done", "aborted"}
LeafOrder == [i \in 1..Len0(leaves) |-> i - 1]
Hit(i) == q[leaves[i].bound] # Interleave
LinearScan == SelectSeq(LeafOrder, Hit)
PartialOnBranches == \A b \in DOMAIN branches : q[branches[b].bound] = Intersect
Always(rel) == \A r \in DOMAIN q : q[r] = rel

\* C1: when the query body answers Intersect on every branch bound, a
\* traversal that has ended has completed normally and has yielded exactly
\* the leaves whose own check is not Interleave, in leaf-array order: the
\* output of the linear scan of the leaf array.
C1_QueryEqualsLinearScan ==
    (PartialOnBranches /\ Halted) => (pc = "done" /\ out = LinearScan)

\* C2: on a tree with at least one leaf, when the query body always answers
\* Include, a traversal that has ended has yielded every leaf once, in the
\* order 0..n-1.
C2_IncludeYieldsAllLeaves ==
    (Len0(leaves) >= 1 /\ Always(Include) /\ Halted)
        => (pc = "done" /\ out = LeafOrder)

\* C7: on a well-formed tree, whatever the query body, the traversal never
\* aborts: no index is out of range and the backtrack assertion holds.
C7_QueryNeverAborts == pc # "aborted"

\* C8: a traversal driven to exhaustion terminates: eventually the stack is
\* empty and the sequence has ended.
C8_QueryTerminates == <>(pc = "done")

\* Every traversal driven to exhaustion stops, by completing or by aborting.
QueryHalts == <>Halted

\* C9: whatever the query body, the leaf indices yielded so far are
\* strictly increasing: leaf-array order, and no leaf twice.
C9_YieldsStrictlyIncreasing ==
    \A i, j \in 1..Len(out) : i < j => out[i] < out[j]

\* A completed traversal that yielded a whole subtree of three leaves.
C9_Witness == pc = "done" /\ Len(out) = 3

\* C10: when the query body always answers Interleave, a traversal that has
\* ended has completed normally and has yielded nothing.
C10_InterleaveYieldsNothing ==
    (Always(Interleave) /\ Halted) => (pc = "done" /\ out = <<>>)

(***************************************************************************)
(* Properties of the plane query                                           *)
(***************************************************************************)
\* C3: on every point, non-zero normal and box, Plane3::check returns the
\* relation that the 8-corner classification PlaneNaive3::check returns,
\* corners on the plane included.
C3_FastAgreesWithNaive ==
    (fastRes # <<>> /\ naiveRes # <<>>) => fastRes[1] = naiveRes[1]

(***************************************************************************)
(* Properties of AABB3                                                     *)
(***************************************************************************)
Axes == 1..3
PositiveVolume(b) == \A k \in Axes : b[k][1] < b[k][2]
Overlap(a, b) == \A k \in Axes : a[k][1] <= b[k][2] /\ b[k][1] <= a[k][2]
Clip(a, b) == [k \in Axes |-> <<max(a[k][1], b[k][1]), min(a[k][2], b[k][2])>>]

\* C4: does_intersects_with is true exactly when intersects returns a box
\* and that box has lo < hi on every axis.
C4_DoesIntersectIffPositiveVolume ==
    (doesAB # <<>> /\ interAB # <<>>)
        => (doesAB[1] <=> (interAB[1] # None /\ PositiveVolume(interAB[1][1])))

\* C5: intersects returns a box exactly when on every axis a.lo <= b.hi and
\* b.lo <= a.hi, and then the box is [max(a.lo, b.lo), min(a.hi, b.hi)] on
\* each axis.
C5_IntersectsIsIntervalOverlap ==
    interAB # <<>>
        => /\ (interAB[1] # None) <=> Overlap(boxA, boxB)
           /\ interAB[1] # None => interAB[1][1] = Clip(boxA, boxB)

\* C6: a.intersects(b) and b.intersects(a) are both absent or both the
\* same box.
C6_IntersectsCommutes ==
    (interAB # <<>> /\ interBA # <<>>) => interAB[1] = interBA[1]

\* lo <= hi on each of the three axes
Canonical(b) == \A k \in Axes : b[k][1] <= b[k][2]

\* C11: every box built by new or from, and every box that extends or a
\* present result of intersects makes of such boxes, has lo <= hi on each
\* axis.
C11_BoxesCanonical == Canonical(boxA) /\ Canonical(boxB)

\* A present result of intersects: the face x = 1 of the unit cube.
C11_Witness ==
    /\ boxOp = "intersects"
    /\ boxA = <<<<1, 1>>, <<0, 1>>, <<0, 1>>>>
    /\ boxB = <<<<0, 1>>, <<0, 1>>, <<0, 1>>>>

(***************************************************************************)
(* The thresholds of the plane query                                       *)
(***************************************************************************)
\* The signed distances of the eight corners of b along n.
CornerDistances(b, n) == {Vec3_bitxor(Corners(b)[i], n) : i \in 1..8}
LargestDistance(b, n) ==
    CHOOSE d \in CornerDistances(b, n) : \A e \in CornerDistances(b, n) : e <= d
SmallestDistance(b, n) ==
    CHOOSE d \in CornerDistances(b, n) : \A e \in CornerDistances(b, n) : d <= e

ByThresholds(p, n, b) ==
    LET offset == Vec3_bitxor(p, n)
    IN IF LargestDistance(b, n) <= offset THEN Include
       ELSE IF SmallestDistance(b, n) >= offset THEN Interleave
       ELSE Intersect

\* C12: Plane3::check returns Include when the largest signed distance of
\* the box is <= the plane offset, otherwise Interleave when the smallest
\* signed distance is >= the offset, otherwise Intersect.
C12_CheckThresholds ==
    fastRes # <<>> => fastRes[1] = ByThresholds(point, normal, bound)

====
